---------------------------- MODULE Spec2Model ----------------------------
(***************************************************************************)
(* tris3d: the rules engine of a three-player tic-tac-toe on the 27 cells  *)
(* of a 3x3x3 cube.                                                        *)
(*                                                                         *)
(* The module models                                                       *)
(*   - the Z3 and Z3xZ3xZ3 semi-sum           (src/src/z3.rs, z3xz3xz3.rs) *)
(*   - the label table and the detector       (src/src/winning_combinations.rs) *)
(*   - the Board                              (src/src/board.rs)           *)
(*   - the Game                               (src/src/game.rs)            *)
(*                                                                         *)
(* Eight specifications share the variables:                               *)
(*   Spec          the Game API: add_player and add_move                   *)
(*   SpecFair      Spec with players who join and who move in their turn   *)
(*   SpecBoard     a Board driven directly through Board::add_move         *)
(*   SpecDetector  get_is_winning_combination applied to a tern of inputs  *)
(*   SpecLines     the detector applied to every set of three cells        *)
(*   SpecTable     the detector applied to the WINNING_COMBINATIONS table  *)
(*   SpecCells     the label table and the index/coordinates conversions   *)
(*   SpecVectors   semi_sum and are_equal applied to two vectors           *)
(*                                                                         *)
(* Two pieces that game.rs and winning_combinations.rs use are not in the  *)
(* source files: the Board's status field (game.rs:61 reads it) and        *)
(* z3xz3xz3::are_equal.  They are modelled from the specification and are  *)
(* marked as such where they are defined.                                  *)
(***************************************************************************)
EXTENDS Integers, Sequences, FiniteSets, TLC

VARIABLES
    moves,          \* Board.moves: the labels played, in order
    board_status,   \* Board.status, read by Game::add_move
    player_ids,     \* Game.player_ids: the roster
    status,         \* Game.status
    ret,            \* the last call and what it returned
    tern,           \* the arguments of the function under check
    outcome,        \* what it returned for tern
    scan,           \* where an enumeration stands; SpecCells: the index
    lines,          \* SpecLines: the winning combinations counted so far
    centre_lines    \* SpecLines: those of them that hold the centre '*'

vars == <<moves, board_status, player_ids, status, ret, tern, outcome,
          scan, lines, centre_lines>>

Range(s) == {s[i] : i \in DOMAIN s}

(***************************************************************************)
(* Bounds of the model.                                                    *)
(***************************************************************************)
\* SpecVectors draws the coordinates of its vectors from 0..MaxCoordinate;
\* the cells of the cube have coordinates 0..2.
MaxCoordinate == 5

\* A call of add_move submits one of the first free labels of POSITION (or a
\* taken label, or the invalid one): the first BoardChoices free labels in
\* SpecBoard, the first GameChoices free labels in Spec.
BoardChoices == 3
GameChoices == 2

(***************************************************************************)
(* z3.rs                                                                   *)
(***************************************************************************)
Z3 == 0..2

\* Mutant of z3_semi_sum: the sum is halved instead of doubled.
z3_semi_sum_halved(a, b) == ((a + b) \div 2) % 3

\* u8 arithmetic; (a + b) * 2 stays far below 256 for the coordinates of the
\* model, so no wrap-around occurs.
z3_semi_sum(a, b) == ((a + b) * 2) % 3

(***************************************************************************)
(* z3xz3xz3.rs                                                             *)
(***************************************************************************)
Z3xZ3xZ3 == Z3 \X Z3 \X Z3

\* Mutant of semi_sum: the third component is taken with b's second one.
semi_sum_wrong_component(a, b) ==
    <<z3_semi_sum(a[1], b[1]), z3_semi_sum(a[2], b[2]), z3_semi_sum(a[3], b[2])>>

semi_sum(a, b) ==
    <<z3_semi_sum(a[1], b[1]), z3_semi_sum(a[2], b[2]), z3_semi_sum(a[3], b[3])>>

\* Mutant of coordinates_of_index: the second coordinate is not reduced
\* modulo 3.
coordinates_of_index_no_mod(index) ==
    << (index - (index % 9)) \div 9,
       (index - (index % 3)) \div 3,
       index % 3 >>

\* u8 arithmetic: index - (index % 9) and index - (index % 3) never go below
\* 0, and no value exceeds 255 for the indexes and coordinates of the model.
coordinates_of_index(index) ==
    << (index - (index % 9)) \div 9,
       ((index - (index % 3)) \div 3) % 3,
       index % 3 >>

index_of_coordinates(vector) == vector[1] * 9 + vector[2] * 3 + vector[3]

\* Mutant of are_equal: the components are compared as they stand.
are_equal_plain(a, b) ==
    /\ a[1] = b[1]
    /\ a[2] = b[2]
    /\ a[3] = b[3]

\* Not in the source files: component-wise comparison modulo 3 (spec 4.2).
are_equal(a, b) ==
    /\ a[1] % 3 = b[1] % 3
    /\ a[2] % 3 = b[2] % 3
    /\ a[3] % 3 = b[3] % 3

(***************************************************************************)
(* board.rs: the label table.                                              *)
(***************************************************************************)
POSITION ==
    << "A", "H", "G", "B", "I", "F", "C", "D", "E",
       "J", "Q", "P", "K", "*", "O", "L", "M", "N",
       "R", "X", "Y", "S", "Z", "W", "T", "U", "V" >>

\* A character that is no label (the tests use ' ').
InvalidLabel == " "

\* Option<Z3xZ3xZ3Vector>: None is modelled as the empty tuple.
None == << >>

\* Mutant of vector_of_position: the vector is taken from the index of the
\* label in POSITION, read as x * 9 + y * 3 + z.
vector_of_position_by_index(position) ==
    IF position \in Range(POSITION)
      THEN coordinates_of_index(
               (CHOOSE i \in DOMAIN POSITION : POSITION[i] = position) - 1)
    ELSE None

vector_of_position(position) ==
    CASE position = "A" -> <<0, 0, 0>>
      [] position = "H" -> <<1, 0, 0>>
      [] position = "G" -> <<2, 0, 0>>
      [] position = "B" -> <<0, 1, 0>>
      [] position = "I" -> <<1, 1, 0>>
      [] position = "F" -> <<2, 1, 0>>
      [] position = "C" -> <<0, 2, 0>>
      [] position = "D" -> <<1, 2, 0>>
      [] position = "E" -> <<2, 2, 0>>
      [] position = "J" -> <<0, 0, 1>>
      [] position = "Q" -> <<1, 0, 1>>
      [] position = "P" -> <<2, 0, 1>>
      [] position = "K" -> <<0, 1, 1>>
      [] position = "*" -> <<1, 1, 1>>
      [] position = "O" -> <<2, 1, 1>>
      [] position = "L" -> <<0, 2, 1>>
      [] position = "M" -> <<1, 2, 1>>
      [] position = "N" -> <<2, 2, 1>>
      [] position = "R" -> <<0, 0, 2>>
      [] position = "X" -> <<1, 0, 2>>
      [] position = "Y" -> <<2, 0, 2>>
      [] position = "S" -> <<0, 1, 2>>
      [] position = "Z" -> <<1, 1, 2>>
      [] position = "W" -> <<2, 1, 2>>
      [] position = "T" -> <<0, 2, 2>>
      [] position = "U" -> <<1, 2, 2>>
      [] position = "V" -> <<2, 2, 2>>
      [] OTHER -> None

(***************************************************************************)
(* winning_combinations.rs: the detector.                                  *)
(* Result<bool, GetIsWinningCombinationError> is the record [err, val];    *)
(* err = "none" is Ok(val).                                                *)
(***************************************************************************)
DetOk(b) == [err |-> "none", val |-> b]
DetErr(e) == [err |-> e, val |-> FALSE]

\* Mutant of face_centre_hit: the face centre is looked for among the first
\* two vectors only.
face_centre_hit_first_two(k, vector_a, vector_b, vector_c) ==
    LET vector_f == [i \in 1..3 |-> IF i = k THEN vector_a[k] ELSE 1]
    IN  /\ vector_a[k] = vector_b[k]
        /\ \/ are_equal(vector_f, vector_a)
           \/ are_equal(vector_f, vector_b)

\* The face-centre step of the detector, for the coordinate k on which
\* vector_a and vector_b agree.
face_centre_hit(k, vector_a, vector_b, vector_c) ==
    LET vector_f == [i \in 1..3 |-> IF i = k THEN vector_a[k] ELSE 1]
    IN  /\ vector_a[k] = vector_b[k]
        /\ \/ are_equal(vector_f, vector_a)
           \/ are_equal(vector_f, vector_b)
           \/ are_equal(vector_f, vector_c)

\* Mutant of get_is_winning_combination: stops after the semi-sum test.
get_is_winning_combination_no_face_check(position_a, position_b, position_c) ==
    LET vector_a == vector_of_position(position_a)
        vector_b == vector_of_position(position_b)
        vector_c == vector_of_position(position_c)
    IN  IF vector_a = None \/ vector_b = None \/ vector_c = None
          THEN DetErr("InvalidPosition")
        ELSE IF position_a = position_b \/ position_a = position_c
                \/ position_b = position_c
          THEN DetErr("PositionsMustBeDistinct")
        ELSE DetOk(are_equal(semi_sum(vector_a, vector_b), vector_c))

\* Mutant of get_is_winning_combination: distinctness is checked before
\* validity, as in is_tris of board.rs.
get_is_winning_combination_distinct_first(position_a, position_b, position_c) ==
    LET vector_a == vector_of_position(position_a)
        vector_b == vector_of_position(position_b)
        vector_c == vector_of_position(position_c)
    IN  IF position_a = position_b \/ position_a = position_c
           \/ position_b = position_c
          THEN DetErr("PositionsMustBeDistinct")
        ELSE IF vector_a = None \/ vector_b = None \/ vector_c = None
          THEN DetErr("InvalidPosition")
        ELSE IF ~are_equal(semi_sum(vector_a, vector_b), vector_c)
          THEN DetOk(FALSE)
        ELSE IF position_a = "*" \/ position_b = "*" \/ position_c = "*"
          THEN DetOk(TRUE)
        ELSE IF vector_a[1] = vector_b[1] /\ vector_a[2] = vector_b[2]
          THEN DetOk(TRUE)
        ELSE IF vector_a[1] = vector_b[1] /\ vector_a[3] = vector_b[3]
          THEN DetOk(TRUE)
        ELSE IF vector_a[2] = vector_b[2] /\ vector_a[3] = vector_b[3]
          THEN DetOk(TRUE)
        ELSE IF face_centre_hit(1, vector_a, vector_b, vector_c)
          THEN DetOk(TRUE)
        ELSE IF face_centre_hit(2, vector_a, vector_b, vector_c)
          THEN DetOk(TRUE)
        ELSE IF face_centre_hit(3, vector_a, vector_b, vector_c)
          THEN DetOk(TRUE)
        ELSE DetOk(FALSE)

\* Mutant of get_is_winning_combination: the centre is looked for before the
\* semi-sum test.
get_is_winning_combination_centre_first(position_a, position_b, position_c) ==
    LET vector_a == vector_of_position(position_a)
        vector_b == vector_of_position(position_b)
        vector_c == vector_of_position(position_c)
    IN  IF vector_a = None \/ vector_b = None \/ vector_c = None
          THEN DetErr("InvalidPosition")
        ELSE IF position_a = position_b \/ position_a = position_c
                \/ position_b = position_c
          THEN DetErr("PositionsMustBeDistinct")
        ELSE IF position_a = "*" \/ position_b = "*" \/ position_c = "*"
          THEN DetOk(TRUE)
        ELSE IF ~are_equal(semi_sum(vector_a, vector_b), vector_c)
          THEN DetOk(FALSE)
        ELSE IF vector_a[1] = vector_b[1] /\ vector_a[2] = vector_b[2]
          THEN DetOk(TRUE)
        ELSE IF vector_a[1] = vector_b[1] /\ vector_a[3] = vector_b[3]
          THEN DetOk(TRUE)
        ELSE IF vector_a[2] = vector_b[2] /\ vector_a[3] = vector_b[3]
          THEN DetOk(TRUE)
        ELSE IF face_centre_hit(1, vector_a, vector_b, vector_c)
          THEN DetOk(TRUE)
        ELSE IF face_centre_hit(2, vector_a, vector_b, vector_c)
          THEN DetOk(TRUE)
        ELSE IF face_centre_hit(3, vector_a, vector_b, vector_c)
          THEN DetOk(TRUE)
        ELSE DetOk(FALSE)

get_is_winning_combination(position_a, position_b, position_c) ==
    LET vector_a == vector_of_position(position_a)
        vector_b == vector_of_position(position_b)
        vector_c == vector_of_position(position_c)
    IN  IF vector_a = None \/ vector_b = None \/ vector_c = None
          THEN DetErr("InvalidPosition")
        ELSE IF position_a = position_b \/ position_a = position_c
                \/ position_b = position_c
          THEN DetErr("PositionsMustBeDistinct")
        ELSE IF ~are_equal(semi_sum(vector_a, vector_b), vector_c)
          THEN DetOk(FALSE)
        ELSE IF position_a = "*" \/ position_b = "*" \/ position_c = "*"
          THEN DetOk(TRUE)
        ELSE IF vector_a[1] = vector_b[1] /\ vector_a[2] = vector_b[2]
          THEN DetOk(TRUE)
        ELSE IF vector_a[1] = vector_b[1] /\ vector_a[3] = vector_b[3]
          THEN DetOk(TRUE)
        ELSE IF vector_a[2] = vector_b[2] /\ vector_a[3] = vector_b[3]
          THEN DetOk(TRUE)
        ELSE IF face_centre_hit(1, vector_a, vector_b, vector_c)
          THEN DetOk(TRUE)
        ELSE IF face_centre_hit(2, vector_a, vector_b, vector_c)
          THEN DetOk(TRUE)
        ELSE IF face_centre_hit(3, vector_a, vector_b, vector_c)
          THEN DetOk(TRUE)
        ELSE DetOk(FALSE)


(***************************************************************************)
(* winning_combinations.rs, tests: the table of winning combinations and   *)
(* the inverse of vector_of_position.  The coordinates are u8 and the      *)
(* table is copied as it stands in the source.                             *)
(***************************************************************************)
WINNING_COMBINATIONS ==
    << <<<<0, 0, 0>>, <<0, 1, 0>>, <<0, 2, 0>>>>,
       <<<<0, 0, 1>>, <<0, 1, 1>>, <<0, 2, 1>>>>,
       <<<<0, 0, 2>>, <<0, 1, 2>>, <<0, 2, 2>>>>,
       <<<<0, 0, 0>>, <<0, 0, 1>>, <<0, 0, 2>>>>,
       <<<<0, 1, 0>>, <<0, 1, 1>>, <<0, 1, 2>>>>,
       <<<<0, 2, 0>>, <<0, 2, 1>>, <<0, 2, 2>>>>,
       <<<<0, 0, 0>>, <<0, 1, 1>>, <<0, 2, 2>>>>,
       <<<<0, 0, 2>>, <<0, 1, 1>>, <<0, 2, 0>>>>,
       <<<<1, 0, 0>>, <<1, 1, 0>>, <<1, 2, 0>>>>,
       <<<<1, 0, 1>>, <<1, 1, 1>>, <<1, 2, 1>>>>,
       <<<<1, 0, 2>>, <<1, 1, 2>>, <<1, 2, 2>>>>,
       <<<<1, 0, 0>>, <<1, 0, 1>>, <<1, 0, 2>>>>,
       <<<<1, 1, 0>>, <<1, 1, 1>>, <<1, 1, 2>>>>,
       <<<<1, 2, 0>>, <<1, 2, 1>>, <<1, 2, 2>>>>,
       <<<<1, 0, 0>>, <<1, 1, 1>>, <<1, 2, 2>>>>,
       <<<<1, 0, 2>>, <<1, 1, 1>>, <<1, 2, 0>>>>,
       <<<<2, 0, 0>>, <<2, 1, 0>>, <<2, 2, 0>>>>,
       <<<<3, 0, 1>>, <<2, 1, 1>>, <<2, 2, 1>>>>,
       <<<<3, 0, 2>>, <<2, 1, 2>>, <<3, 2, 2>>>>,
       <<<<3, 0, 0>>, <<2, 0, 1>>, <<2, 0, 2>>>>,
       <<<<2, 1, 0>>, <<2, 1, 1>>, <<2, 1, 2>>>>,
       <<<<2, 2, 0>>, <<3, 2, 1>>, <<2, 2, 2>>>>,
       <<<<2, 0, 0>>, <<3, 1, 1>>, <<3, 2, 2>>>>,
       <<<<2, 0, 2>>, <<2, 1, 1>>, <<3, 2, 0>>>>,
       <<<<0, 0, 0>>, <<1, 0, 0>>, <<2, 0, 0>>>>,
       <<<<0, 0, 1>>, <<1, 0, 1>>, <<2, 0, 1>>>>,
       <<<<0, 0, 2>>, <<1, 0, 2>>, <<2, 0, 2>>>>,
       <<<<0, 0, 0>>, <<0, 0, 1>>, <<0, 0, 2>>>>,
       <<<<1, 0, 0>>, <<1, 0, 1>>, <<1, 0, 2>>>>,
       <<<<2, 0, 0>>, <<2, 0, 1>>, <<2, 0, 2>>>>,
       <<<<0, 0, 0>>, <<1, 0, 1>>, <<2, 0, 2>>>>,
       <<<<0, 0, 2>>, <<1, 0, 1>>, <<2, 0, 0>>>>,
       <<<<0, 1, 0>>, <<1, 1, 0>>, <<2, 1, 0>>>>,
       <<<<0, 1, 1>>, <<1, 1, 1>>, <<2, 1, 1>>>>,
       <<<<0, 1, 2>>, <<1, 1, 2>>, <<2, 1, 2>>>>,
       <<<<0, 1, 0>>, <<0, 1, 1>>, <<0, 1, 2>>>>,
       <<<<1, 1, 0>>, <<1, 1, 1>>, <<1, 1, 2>>>>,
       <<<<2, 1, 0>>, <<2, 1, 1>>, <<2, 1, 2>>>>,
       <<<<0, 1, 0>>, <<1, 1, 1>>, <<2, 1, 2>>>>,
       <<<<0, 1, 2>>, <<1, 1, 1>>, <<2, 1, 0>>>>,
       <<<<0, 2, 0>>, <<1, 2, 0>>, <<2, 2, 0>>>>,
       <<<<0, 2, 1>>, <<1, 2, 1>>, <<2, 2, 1>>>>,
       <<<<0, 2, 2>>, <<1, 2, 2>>, <<2, 2, 2>>>>,
       <<<<0, 2, 0>>, <<0, 2, 1>>, <<0, 2, 2>>>>,
       <<<<1, 2, 0>>, <<1, 2, 1>>, <<1, 2, 2>>>>,
       <<<<2, 2, 0>>, <<2, 2, 1>>, <<2, 2, 2>>>>,
       <<<<0, 2, 0>>, <<1, 2, 1>>, <<2, 2, 2>>>>,
       <<<<0, 2, 2>>, <<1, 2, 1>>, <<2, 2, 0>>>>,
       <<<<0, 0, 0>>, <<1, 0, 0>>, <<2, 0, 0>>>>,
       <<<<0, 1, 0>>, <<1, 1, 0>>, <<2, 1, 0>>>>,
       <<<<0, 2, 0>>, <<1, 2, 0>>, <<2, 2, 0>>>>,
       <<<<0, 0, 0>>, <<0, 1, 0>>, <<0, 2, 0>>>>,
       <<<<1, 0, 0>>, <<1, 1, 0>>, <<1, 2, 0>>>>,
       <<<<2, 0, 0>>, <<2, 1, 0>>, <<2, 2, 0>>>>,
       <<<<0, 0, 0>>, <<1, 1, 0>>, <<2, 2, 0>>>>,
       <<<<0, 2, 0>>, <<1, 1, 0>>, <<2, 0, 0>>>>,
       <<<<0, 0, 1>>, <<1, 0, 1>>, <<2, 0, 1>>>>,
       <<<<0, 1, 1>>, <<1, 1, 1>>, <<2, 1, 1>>>>,
       <<<<0, 2, 1>>, <<1, 2, 1>>, <<2, 2, 1>>>>,
       <<<<0, 0, 1>>, <<0, 1, 1>>, <<0, 2, 1>>>>,
       <<<<1, 0, 1>>, <<1, 1, 1>>, <<1, 2, 1>>>>,
       <<<<2, 0, 1>>, <<2, 1, 1>>, <<2, 2, 1>>>>,
       <<<<0, 0, 1>>, <<1, 1, 1>>, <<2, 2, 1>>>>,
       <<<<0, 2, 1>>, <<1, 1, 1>>, <<2, 0, 1>>>>,
       <<<<0, 0, 2>>, <<1, 0, 2>>, <<2, 0, 2>>>>,
       <<<<0, 1, 2>>, <<1, 1, 2>>, <<2, 1, 2>>>>,
       <<<<0, 2, 2>>, <<1, 2, 2>>, <<2, 2, 2>>>>,
       <<<<0, 0, 2>>, <<0, 1, 2>>, <<0, 2, 2>>>>,
       <<<<1, 0, 2>>, <<1, 1, 2>>, <<1, 2, 2>>>>,
       <<<<2, 0, 2>>, <<2, 1, 2>>, <<2, 2, 2>>>>,
       <<<<0, 0, 2>>, <<1, 1, 2>>, <<2, 2, 2>>>>,
       <<<<0, 2, 2>>, <<1, 1, 2>>, <<2, 0, 2>>>>,
       <<<<0, 0, 0>>, <<1, 1, 1>>, <<2, 2, 2>>>>,
       <<<<2, 0, 0>>, <<1, 1, 1>>, <<0, 2, 2>>>>,
       <<<<2, 2, 0>>, <<1, 1, 1>>, <<0, 0, 2>>>>,
       <<<<0, 2, 0>>, <<1, 1, 1>>, <<2, 0, 2>>>> >>

\* Option<char>: None is modelled as the empty string.
NonePosition == ""

position_of_vector(vector) ==
    CASE vector = <<0, 0, 0>> -> "A"
      [] vector = <<0, 0, 1>> -> "J"
      [] vector = <<0, 0, 2>> -> "R"
      [] vector = <<0, 1, 0>> -> "B"
      [] vector = <<0, 1, 1>> -> "K"
      [] vector = <<0, 1, 2>> -> "S"
      [] vector = <<0, 2, 0>> -> "C"
      [] vector = <<0, 2, 1>> -> "L"
      [] vector = <<0, 2, 2>> -> "T"
      [] vector = <<1, 0, 0>> -> "H"
      [] vector = <<1, 0, 1>> -> "Q"
      [] vector = <<1, 0, 2>> -> "X"
      [] vector = <<1, 1, 0>> -> "I"
      [] vector = <<1, 1, 1>> -> "*"
      [] vector = <<1, 1, 2>> -> "Z"
      [] vector = <<1, 2, 0>> -> "D"
      [] vector = <<1, 2, 1>> -> "M"
      [] vector = <<1, 2, 2>> -> "U"
      [] vector = <<2, 0, 0>> -> "G"
      [] vector = <<2, 0, 1>> -> "P"
      [] vector = <<2, 0, 2>> -> "Y"
      [] vector = <<2, 1, 0>> -> "F"
      [] vector = <<2, 1, 1>> -> "O"
      [] vector = <<2, 1, 2>> -> "W"
      [] vector = <<2, 2, 0>> -> "E"
      [] vector = <<2, 2, 1>> -> "N"
      [] vector = <<2, 2, 2>> -> "V"
      [] OTHER -> NonePosition

\* The cell an entry of the table names: its coordinates modulo 3.
position_of_entry(vector) ==
    position_of_vector(<<vector[1] % 3, vector[2] % 3, vector[3] % 3>>)

(***************************************************************************)
(* board.rs: the Board.                                                    *)
(* Board::add_move returns Result<u8, &str>; Game::add_move returns its    *)
(* result as Result<u8, Error>, so the four messages of board.rs are named *)
(* by the variants of errors.rs:                                           *)
(*   "Game over, there is already a winner."  ThereIsAlreadyAWinner        *)
(*   "Board is full."                         BoardIsFull                  *)
(*   "Position already taken."                PositionAlreadyTaken         *)
(*   "Position is not valid."                 InvalidPosition              *)
(***************************************************************************)
\* Mutant of get_num_tris: the sixth move can already win (as has_tris of
\* lib.rs has it).
get_num_tris_from_sixth(m) ==
    IF Len(m) < 6 THEN 0 ELSE 1

\* Mutant of get_num_tris: the count is taken with is_tris of board.rs, which
\* answers Ok(false) for every three distinct labels.
get_num_tris_by_is_tris(m) ==
    IF Len(m) < 7 THEN 0 ELSE 0

get_num_tris(m) ==
    \* No player can win before the seventh move.
    IF Len(m) < 7 THEN 0 ELSE 1

\* Mutant of BoardStatusAfter: a single winning combination is not a win.
BoardStatusAfter_more_than_one(count, m) ==
    IF count > 1 THEN "HasWinner"
    ELSE IF Len(m) = Len(POSITION) THEN "Tied"
    ELSE "IsPlaying"

\* Not in the source files: how the status follows a successful add_move
\* (spec 4.5).  count is the value add_move returns, m the sequence after it.
BoardStatusAfter(count, m) ==
    IF count > 0 THEN "HasWinner"
    ELSE IF Len(m) = Len(POSITION) THEN "Tied"
    ELSE "IsPlaying"

\* Mutant of Board_add_move_result: the label is pushed before it is found
\* to be no label of POSITION.
Board_add_move_result_push_invalid(m, position) ==
    IF get_num_tris(m) > 0
      THEN [err |-> "ThereIsAlreadyAWinner", val |-> 0, moves |-> m]
    ELSE IF Len(m) = Len(POSITION)
      THEN [err |-> "BoardIsFull", val |-> 0, moves |-> m]
    ELSE IF position \in Range(m)
      THEN [err |-> "PositionAlreadyTaken", val |-> 0, moves |-> m]
    ELSE IF position \in Range(POSITION)
      THEN [err |-> "none", val |-> get_num_tris(Append(m, position)),
            moves |-> Append(m, position)]
    ELSE [err |-> "InvalidPosition", val |-> 0, moves |-> Append(m, position)]

\* Mutant of Board_add_move_result: the position checks come before the
\* checks of a finished board.
Board_add_move_result_position_first(m, position) ==
    IF position \in Range(m)
      THEN [err |-> "PositionAlreadyTaken", val |-> 0, moves |-> m]
    ELSE IF position \notin Range(POSITION)
      THEN [err |-> "InvalidPosition", val |-> 0, moves |-> m]
    ELSE IF get_num_tris(m) > 0
      THEN [err |-> "ThereIsAlreadyAWinner", val |-> 0, moves |-> m]
    ELSE IF Len(m) = Len(POSITION)
      THEN [err |-> "BoardIsFull", val |-> 0, moves |-> m]
    ELSE [err |-> "none", val |-> get_num_tris(Append(m, position)),
          moves |-> Append(m, position)]

\* Mutant of Board_add_move_result: a taken label is accepted again.
Board_add_move_result_no_taken_check(m, position) ==
    IF get_num_tris(m) > 0
      THEN [err |-> "ThereIsAlreadyAWinner", val |-> 0, moves |-> m]
    ELSE IF Len(m) = Len(POSITION)
      THEN [err |-> "BoardIsFull", val |-> 0, moves |-> m]
    ELSE IF position \in Range(POSITION)
      THEN [err |-> "none", val |-> get_num_tris(Append(m, position)),
            moves |-> Append(m, position)]
    ELSE [err |-> "InvalidPosition", val |-> 0, moves |-> m]

\* Mutant of Board_add_move_result: a board with a winner still takes moves.
Board_add_move_result_no_winner_check(m, position) ==
    IF Len(m) = Len(POSITION)
      THEN [err |-> "BoardIsFull", val |-> 0, moves |-> m]
    ELSE IF position \in Range(m)
      THEN [err |-> "PositionAlreadyTaken", val |-> 0, moves |-> m]
    ELSE IF position \in Range(POSITION)
      THEN [err |-> "none", val |-> get_num_tris(Append(m, position)),
            moves |-> Append(m, position)]
    ELSE [err |-> "InvalidPosition", val |-> 0, moves |-> m]

\* Mutant of Board_add_move_result: the label is put in front of the sequence.
Board_add_move_result_push_front(m, position) ==
    IF get_num_tris(m) > 0
      THEN [err |-> "ThereIsAlreadyAWinner", val |-> 0, moves |-> m]
    ELSE IF Len(m) = Len(POSITION)
      THEN [err |-> "BoardIsFull", val |-> 0, moves |-> m]
    ELSE IF position \in Range(m)
      THEN [err |-> "PositionAlreadyTaken", val |-> 0, moves |-> m]
    ELSE IF position \in Range(POSITION)
      THEN [err |-> "none", val |-> get_num_tris(<<position>> \o m),
            moves |-> <<position>> \o m]
    ELSE [err |-> "InvalidPosition", val |-> 0, moves |-> m]

\* The result of Board::add_move on the sequence m: the error (or "none"),
\* the value returned and the sequence afterwards.
Board_add_move_result(m, position) ==
    IF get_num_tris(m) > 0
      THEN [err |-> "ThereIsAlreadyAWinner", val |-> 0, moves |-> m]
    ELSE IF Len(m) = Len(POSITION)
      THEN [err |-> "BoardIsFull", val |-> 0, moves |-> m]
    ELSE IF position \in Range(m)
      THEN [err |-> "PositionAlreadyTaken", val |-> 0, moves |-> m]
    ELSE IF position \in Range(POSITION)
      THEN [err |-> "none", val |-> get_num_tris(Append(m, position)),
            moves |-> Append(m, position)]
    ELSE [err |-> "InvalidPosition", val |-> 0, moves |-> m]

\* The Board after the call: the sequence and the status.
Board_add_move_status(r, old_status) ==
    IF r.err = "none" THEN BoardStatusAfter(r.val, r.moves) ELSE old_status

\* Mutant of next_player_index: the index of the player after the next one.
next_player_index_off_by_one(m) == (Len(m) + 1) % 3

\* self.moves.len() % 3
next_player_index(m) == Len(m) % 3

Board_add_move(position) ==
    LET r == Board_add_move_result(moves, position)
    IN  /\ moves' = r.moves
        /\ board_status' = Board_add_move_status(r, board_status)
        /\ ret' = [op |-> "Board.add_move", err |-> r.err, val |-> r.val]
        /\ UNCHANGED <<player_ids, status, tern, outcome, scan, lines,
                     centre_lines>>

(***************************************************************************)
(* game.rs: the Game.                                                      *)
(***************************************************************************)
\* Mutant of Game_add_player_result: the game starts one player early.
Game_add_player_result_early_start(ids, st, player_id) ==
    IF Len(ids) = 3
      THEN [err |-> "CannotAddMoreThanThreePlayers", player_ids |-> ids,
            status |-> st]
    ELSE IF player_id \in Range(ids)
      THEN [err |-> "CannotAddSamePlayerTwice", player_ids |-> ids,
            status |-> st]
    ELSE [err |-> "none", player_ids |-> Append(ids, player_id),
          status |-> IF Len(Append(ids, player_id)) >= 2
                       THEN "IsPlaying" ELSE st]

\* Mutant of Game_add_player_result: a refused fourth player puts the game
\* back to waiting.
Game_add_player_result_reset_on_full(ids, st, player_id) ==
    IF Len(ids) = 3
      THEN [err |-> "CannotAddMoreThanThreePlayers", player_ids |-> ids,
            status |-> "WaitingForPlayers"]
    ELSE IF player_id \in Range(ids)
      THEN [err |-> "CannotAddSamePlayerTwice", player_ids |-> ids,
            status |-> st]
    ELSE [err |-> "none", player_ids |-> Append(ids, player_id),
          status |-> IF Len(Append(ids, player_id)) = 3
                       THEN "IsPlaying" ELSE st]

\* Mutant of Game_add_player_result: the roster is not counted before the
\* push.
Game_add_player_result_no_full_check(ids, st, player_id) ==
    IF player_id \in Range(ids)
      THEN [err |-> "CannotAddSamePlayerTwice", player_ids |-> ids,
            status |-> st]
    ELSE [err |-> "none", player_ids |-> Append(ids, player_id),
          status |-> IF Len(Append(ids, player_id)) = 3
                       THEN "IsPlaying" ELSE st]

\* Mutant of Game_add_player_result: the roster is not searched for the id.
Game_add_player_result_no_same_check(ids, st, player_id) ==
    IF Len(ids) = 3
      THEN [err |-> "CannotAddMoreThanThreePlayers", player_ids |-> ids,
            status |-> st]
    ELSE [err |-> "none", player_ids |-> Append(ids, player_id),
          status |-> IF Len(Append(ids, player_id)) = 3
                       THEN "IsPlaying" ELSE st]

\* Mutant of Game_add_player_result: the roster is searched before it is
\* counted.
Game_add_player_result_same_first(ids, st, player_id) ==
    IF player_id \in Range(ids)
      THEN [err |-> "CannotAddSamePlayerTwice", player_ids |-> ids,
            status |-> st]
    ELSE IF Len(ids) = 3
      THEN [err |-> "CannotAddMoreThanThreePlayers", player_ids |-> ids,
            status |-> st]
    ELSE [err |-> "none", player_ids |-> Append(ids, player_id),
          status |-> IF Len(Append(ids, player_id)) = 3
                       THEN "IsPlaying" ELSE st]

\* The result of Game::add_player: the error (or "none"), the roster and the
\* status afterwards.
Game_add_player_result(ids, st, player_id) ==
    IF Len(ids) = 3
      THEN [err |-> "CannotAddMoreThanThreePlayers", player_ids |-> ids,
            status |-> st]
    ELSE IF player_id \in Range(ids)
      THEN [err |-> "CannotAddSamePlayerTwice", player_ids |-> ids,
            status |-> st]
    ELSE [err |-> "none", player_ids |-> Append(ids, player_id),
          status |-> IF Len(Append(ids, player_id)) = 3
                       THEN "IsPlaying" ELSE st]

Game_add_player(player_id) ==
    LET r == Game_add_player_result(player_ids, status, player_id)
    IN  /\ player_ids' = r.player_ids
        /\ status' = r.status
        /\ ret' = [op |-> "Game.add_player", err |-> r.err, val |-> 0]
        /\ UNCHANGED <<moves, board_status, tern, outcome, scan, lines,
                     centre_lines>>

\* Mutant of Game_add_move_result: the count is reported only to the player
\* whose place in the roster is the place of the move in the sequence.
Game_add_move_result_count_by_roster(ids, st, m, bst, player_id, position) ==
    IF st = "WaitingForPlayers"
      THEN [err |-> "GameNotStartedYet", val |-> 0, called |-> FALSE,
            moves |-> m, board_status |-> bst]
    ELSE IF bst # "IsPlaying"
      THEN [err |-> "GameIsOver", val |-> 0, called |-> FALSE,
            moves |-> m, board_status |-> bst]
    ELSE IF player_id \notin Range(ids)
      THEN [err |-> "PlayerNotFound", val |-> 0, called |-> FALSE,
            moves |-> m, board_status |-> bst]
    ELSE LET r == Board_add_move_result(m, position)
         IN  [err |-> r.err,
              val |-> IF player_id = ids[next_player_index(m) + 1]
                        THEN r.val ELSE 0,
              called |-> TRUE,
              moves |-> r.moves,
              board_status |-> Board_add_move_status(r, bst)]

\* Mutant of Game_add_move_result: the Board status is not looked at.
Game_add_move_result_no_over_check(ids, st, m, bst, player_id, position) ==
    IF st = "WaitingForPlayers"
      THEN [err |-> "GameNotStartedYet", val |-> 0, called |-> FALSE,
            moves |-> m, board_status |-> bst]
    ELSE IF player_id \notin Range(ids)
      THEN [err |-> "PlayerNotFound", val |-> 0, called |-> FALSE,
            moves |-> m, board_status |-> bst]
    ELSE LET r == Board_add_move_result(m, position)
         IN  [err |-> r.err, val |-> r.val, called |-> TRUE,
              moves |-> r.moves,
              board_status |-> Board_add_move_status(r, bst)]

\* The result of Game::add_move: the error (or "none"), the value returned,
\* whether Board::add_move was called, and the Board afterwards.
Game_add_move_result(ids, st, m, bst, player_id, position) ==
    IF st = "WaitingForPlayers"
      THEN [err |-> "GameNotStartedYet", val |-> 0, called |-> FALSE,
            moves |-> m, board_status |-> bst]
    ELSE IF bst # "IsPlaying"
      THEN [err |-> "GameIsOver", val |-> 0, called |-> FALSE,
            moves |-> m, board_status |-> bst]
    ELSE IF player_id \notin Range(ids)
      THEN [err |-> "PlayerNotFound", val |-> 0, called |-> FALSE,
            moves |-> m, board_status |-> bst]
    ELSE LET r == Board_add_move_result(m, position)
         IN  [err |-> r.err, val |-> r.val, called |-> TRUE,
              moves |-> r.moves,
              board_status |-> Board_add_move_status(r, bst)]

\* Game::add_move never assigns self.status.
Game_add_move(player_id, position) ==
    LET r == Game_add_move_result(player_ids, status, moves, board_status,
                                  player_id, position)
    IN  /\ moves' = r.moves
        /\ board_status' = r.board_status
        /\ ret' = [op |-> "Game.add_move", err |-> r.err, val |-> r.val]
        /\ UNCHANGED <<player_ids, status, tern, outcome, scan, lines,
                     centre_lines>>

(***************************************************************************)
(* The inputs.                                                             *)
(***************************************************************************)
Labels == Range(POSITION)

\* The free cells of m in the order of POSITION, and the first w of them.
FreeLabels(m) == SelectSeq(POSITION, LAMBDA x : x \notin Range(m))

FirstFree(m, w) ==
    LET free == FreeLabels(m)
    IN  {free[i] : i \in 1..(IF Len(free) < w THEN Len(free) ELSE w)}

\* Taken labels to submit again: the first and the last one played.
SomeTaken(m) == IF m = << >> THEN {} ELSE {m[1], m[Len(m)]}

\* The matches that the tests and the specification play move by move
\* (game.rs:182-201, tests/game.rs:13-21, spec.md section 8).
EarliestWin == <<"A", "H", "G", "*", "I", "F", "V">>

DoubleWin == <<"A", "B", "C", "G", "F", "E", "T", "S", "R", "V", "W", "Y", "*">>

Scripts == {EarliestWin, DoubleWin}

\* The label that continues a match of Scripts of which m is the beginning.
ScriptedNext(m) ==
    {sc[Len(m) + 1] : sc \in {x \in Scripts : /\ Len(m) < Len(x)
                                             /\ SubSeq(x, 1, Len(m)) = m}}

\* The labels submitted in a state: free ones, the next one of a scripted
\* match, taken ones, the invalid one.
BoardInputs(m) ==
    FirstFree(m, BoardChoices) \cup ScriptedNext(m) \cup SomeTaken(m)
        \cup {InvalidLabel}

GameInputs(m) ==
    FirstFree(m, GameChoices) \cup ScriptedNext(m) \cup SomeTaken(m)
        \cup {InvalidLabel}

\* The ids are compared only for equality, so the players join in the order
\* of PlayerOrder: add_player is called with the first id that has not
\* joined yet, or with one that has.
PlayerOrder == <<"Alice", "Bob", "Neuromancer", "Mallory">>

JoinInputs(ids) ==
    LET out == SelectSeq(PlayerOrder, LAMBDA x : x \notin Range(ids))
    IN  Range(ids) \cup (IF out = << >> THEN {} ELSE {out[1]})

\* The arguments SpecDetector applies the detector to.
DetectorInputs == Labels \cup {InvalidLabel}

(***************************************************************************)
(* The specifications.                                                     *)
(***************************************************************************)
NoCall == [op |-> "none", err |-> "none", val |-> 0]

\* Game::new(), Board::new()
Init ==
    /\ moves = << >>
    /\ board_status = "IsPlaying"
    /\ player_ids = << >>
    /\ status = "WaitingForPlayers"
    /\ ret = NoCall
    /\ tern = << >>
    /\ outcome = DetErr("pending")
    /\ scan = << >>
    /\ lines = 0
    /\ centre_lines = 0

PlayerIds == Range(PlayerOrder)

AddPlayer == \E id \in JoinInputs(player_ids) : Game_add_player(id)

AddMove == \E id \in PlayerIds : \E p \in GameInputs(moves) : Game_add_move(id, p)

Next == AddPlayer \/ AddMove

Spec == Init /\ [][Next]_vars

\* The player in turn submits a free valid label to a game that is playing.
PlayInTurn ==
    /\ status = "IsPlaying"
    /\ board_status = "IsPlaying"
    /\ \E p \in GameInputs(moves) \cap (Labels \ Range(moves)) :
          Game_add_move(player_ids[next_player_index(moves) + 1], p)

\* The three players join.
Join ==
    /\ Len(player_ids) < 3
    /\ \E id \in JoinInputs(player_ids) \ Range(player_ids) :
          Game_add_player(id)

\* Spec with players who do join and who, in a playing game, do move when
\* it is their turn.
SpecFair == Spec /\ WF_vars(Join) /\ WF_vars(PlayInTurn)

BoardNext == \E p \in BoardInputs(moves) : Board_add_move(p)

SpecBoard == Init /\ [][BoardNext]_vars

InitDetector ==
    /\ moves = << >>
    /\ board_status = "IsPlaying"
    /\ player_ids = << >>
    /\ status = "WaitingForPlayers"
    /\ ret = NoCall
    /\ tern \in DetectorInputs \X DetectorInputs \X DetectorInputs
    /\ outcome = DetErr("pending")
    /\ scan = << >>
    /\ lines = 0
    /\ centre_lines = 0

Detect ==
    /\ outcome.err = "pending"
    /\ outcome' = get_is_winning_combination(tern[1], tern[2], tern[3])
    /\ UNCHANGED <<moves, board_status, player_ids, status, ret, tern,
                   scan, lines, centre_lines>>

SpecDetector == InitDetector /\ [][Detect]_vars

\* The sets of three cells: three increasing indexes of POSITION, taken in
\* lexicographic order; << >> follows the last one.
FirstTriple == <<1, 2, 3>>

NextTriple(t) ==
    IF t[3] < Len(POSITION) THEN <<t[1], t[2], t[3] + 1>>
    ELSE IF t[2] < Len(POSITION) - 1 THEN <<t[1], t[2] + 1, t[2] + 2>>
    ELSE IF t[1] < Len(POSITION) - 2 THEN <<t[1] + 1, t[1] + 2, t[1] + 3>>
    ELSE << >>

InitLines ==
    /\ moves = << >>
    /\ board_status = "IsPlaying"
    /\ player_ids = << >>
    /\ status = "WaitingForPlayers"
    /\ ret = NoCall
    /\ tern = << >>
    /\ outcome = DetErr("pending")
    /\ scan = FirstTriple
    /\ lines = 0
    /\ centre_lines = 0

\* The detector is applied to the next set of three cells and the set is
\* counted when the answer is Ok(true).
CountLine ==
    /\ scan # << >>
    /\ tern' = <<POSITION[scan[1]], POSITION[scan[2]], POSITION[scan[3]]>>
    /\ outcome' = get_is_winning_combination(POSITION[scan[1]],
                                             POSITION[scan[2]],
                                             POSITION[scan[3]])
    /\ lines' = IF outcome'.err = "none" /\ outcome'.val
                  THEN lines + 1 ELSE lines
    /\ centre_lines' = IF /\ outcome'.err = "none" /\ outcome'.val
                            /\ "*" \in Range(tern')
                          THEN centre_lines + 1 ELSE centre_lines
    /\ scan' = NextTriple(scan)
    /\ UNCHANGED <<moves, board_status, player_ids, status, ret>>

SpecLines == InitLines /\ [][CountLine]_vars

\* One entry of WINNING_COMBINATIONS, chosen by its index, is given to the
\* detector.
InitTable ==
    /\ moves = << >>
    /\ board_status = "IsPlaying"
    /\ player_ids = << >>
    /\ status = "WaitingForPlayers"
    /\ ret = NoCall
    /\ scan \in {<<i>> : i \in DOMAIN WINNING_COMBINATIONS}
    /\ tern = [k \in 1..3 |->
                 position_of_entry(WINNING_COMBINATIONS[scan[1]][k])]
    /\ outcome = DetErr("pending")
    /\ lines = 0
    /\ centre_lines = 0

SpecTable == InitTable /\ [][Detect]_vars

\* The label table and the conversions are applied to an index i of
\* POSITION (0-based, scan = <<i>>), to a character p that is a label or not,
\* and to a vector v of Z3xZ3xZ3 (tern = <<p, v>>).
InitCells ==
    /\ moves = << >>
    /\ board_status = "IsPlaying"
    /\ player_ids = << >>
    /\ status = "WaitingForPlayers"
    /\ ret = NoCall
    /\ scan \in {<<i>> : i \in 0..(Len(POSITION) - 1)}
    /\ tern \in DetectorInputs \X Z3xZ3xZ3
    /\ outcome = DetErr("pending")
    /\ lines = 0
    /\ centre_lines = 0

\* position_of_vector(vector_of_position(position).unwrap())
position_of_vector_of_position(position) ==
    IF vector_of_position(position) = None THEN NonePosition
    ELSE position_of_vector(vector_of_position(position))

ApplyCells ==
    /\ outcome.err = "pending"
    /\ outcome' =
         [err |-> "none", val |-> FALSE,
          coordinates |-> coordinates_of_index(scan[1]),
          index |-> index_of_coordinates(coordinates_of_index(scan[1])),
          vector_i |-> vector_of_position(POSITION[scan[1] + 1]),
          vector_p |-> vector_of_position(tern[1]),
          position_p |-> position_of_vector_of_position(tern[1]),
          index_v |-> index_of_coordinates(tern[2]),
          coordinates_v |->
              coordinates_of_index(index_of_coordinates(tern[2]))]
    /\ UNCHANGED <<moves, board_status, player_ids, status, ret, tern,
                   scan, lines, centre_lines>>

SpecCells == InitCells /\ [][ApplyCells]_vars

\* semi_sum and are_equal are applied to two vectors a and b of u8
\* coordinates (tern = <<a, b>>).
Vectors == (0..MaxCoordinate) \X (0..MaxCoordinate) \X (0..MaxCoordinate)

InitVectors ==
    /\ moves = << >>
    /\ board_status = "IsPlaying"
    /\ player_ids = << >>
    /\ status = "WaitingForPlayers"
    /\ ret = NoCall
    /\ scan = << >>
    /\ tern \in Vectors \X Vectors
    /\ outcome = DetErr("pending")
    /\ lines = 0
    /\ centre_lines = 0

ApplyVectors ==
    /\ outcome.err = "pending"
    /\ outcome' =
         [err |-> "none", val |-> are_equal(tern[1], tern[2]),
          sum |-> semi_sum(tern[1], tern[2]),
          sum_ba |-> semi_sum(tern[2], tern[1]),
          sum_aa |-> semi_sum(tern[1], tern[1]),
          sum_bc |-> semi_sum(tern[2], semi_sum(tern[1], tern[2])),
          sum_ca |-> semi_sum(semi_sum(tern[1], tern[2]), tern[1])]
    /\ UNCHANGED <<moves, board_status, player_ids, status, ret, tern,
                   scan, lines, centre_lines>>

SpecVectors == InitVectors /\ [][ApplyVectors]_vars

(***************************************************************************)
(* Definitions the properties are stated with.                             *)
(***************************************************************************)
\* Three distinct cells are a straight line of the cube when one of them is
\* the midpoint of the other two, in integer (not modulo 3) coordinates.
Midpoint(p, q, r) == \A i \in 1..3 : 2 * q[i] = p[i] + r[i]

IsStraightLine(a, b, c) ==
    Midpoint(a, b, c) \/ Midpoint(b, a, c) \/ Midpoint(a, c, b)

DistinctLabels(t) ==
    /\ t[1] \in Labels /\ t[2] \in Labels /\ t[3] \in Labels
    /\ t[1] # t[2] /\ t[1] # t[3] /\ t[2] # t[3]

\* The move positions (1-based) of the player who made the last move of m.
OwnIndexes(m) == {i \in 1..Len(m) : (i - 1) % 3 = (Len(m) - 1) % 3}

\* The number of unordered triples of the last mover's cells that the
\* detector classifies as winning.
NumWinningOwn(m) ==
    Cardinality({t \in OwnIndexes(m) \X OwnIndexes(m) \X OwnIndexes(m) :
                   /\ t[1] < t[2] /\ t[2] < t[3]
                   /\ get_is_winning_combination(m[t[1]], m[t[2]], m[t[3]]).val})

BoardOk == ret.op = "Board.add_move" /\ ret.err = "none"

(***************************************************************************)
(* C1.  For every ordered triple of three distinct valid labels the        *)
(* detector returns Ok(true) if and only if the three cells are a straight *)
(* line of the cube; a triple that passes the semi-sum test modulo 3 but   *)
(* wraps around the cube is rejected.                                      *)
(***************************************************************************)
C1_DetectorIsStraightLine ==
    (outcome.err # "pending" /\ DistinctLabels(tern)) =>
        /\ outcome.err = "none"
        /\ outcome.val = IsStraightLine(vector_of_position(tern[1]),
                                        vector_of_position(tern[2]),
                                        vector_of_position(tern[3]))

\* A tern that passes the semi-sum test, wraps around, and was rejected.
C1_Witness ==
    /\ DistinctLabels(tern)
    /\ outcome = DetOk(FALSE)
    /\ are_equal(semi_sum(vector_of_position(tern[1]),
                          vector_of_position(tern[2])),
                 vector_of_position(tern[3]))

(***************************************************************************)
(* C2.  The value a successful Board::add_move returns, and get_num_tris   *)
(* right after it, is the number of unordered triples of the mover's own   *)
(* cells (move positions k, k+3, ...) that the detector classifies as      *)
(* winning.                                                                *)
(***************************************************************************)
C2_CountIsOwnWinningTriples ==
    BoardOk =>
        /\ ret.val = NumWinningOwn(moves)
        /\ get_num_tris(moves) = NumWinningOwn(moves)

(***************************************************************************)
(* C3.  After a successful Board::add_move the status is HasWinner if the  *)
(* returned count is > 0, Tied if the count is 0 and the sequence has 27   *)
(* entries, and IsPlaying otherwise.                                       *)
(***************************************************************************)
C3_StatusFollowsCount ==
    BoardOk =>
        board_status = (IF ret.val > 0 THEN "HasWinner"
                        ELSE IF Len(moves) = 27 THEN "Tied"
                        ELSE "IsPlaying")

C3_Witness == BoardOk /\ ret.val > 0 /\ board_status = "HasWinner"

(***************************************************************************)
(* C4.  In a game that is playing, Game::add_move by a registered player   *)
(* who is not player_ids[number of moves mod 3] fails with                 *)
(* PlayerMustWaitForTurn and applies no move.                              *)
(***************************************************************************)
C4_OutOfTurnIsRejected ==
    [][\A id \in PlayerIds : \A p \in GameInputs(moves) :
          ( /\ status = "IsPlaying"
            /\ board_status = "IsPlaying"
            /\ id \in Range(player_ids)
            /\ id # player_ids[next_player_index(moves) + 1]
            /\ Game_add_move(id, p) )
          => (ret'.err = "PlayerMustWaitForTurn" /\ moves' = moves)]_vars

(***************************************************************************)
(* C5.  The Game status mirrors the Board: Game.status is IsOver if and    *)
(* only if the Board status is HasWinner or Tied.                          *)
(***************************************************************************)
C5_OverIffBoardFinished ==
    (status = "IsOver") <=> (board_status \in {"HasWinner", "Tied"})

(***************************************************************************)
(* C6.  A call that returns an error leaves the move sequence, the Board   *)
(* status, the roster, the Game status and the turn index unchanged.       *)
(***************************************************************************)
C6_ErrorChangesNothing ==
    [][ret'.err # "none" =>
          /\ UNCHANGED <<moves, board_status, player_ids, status>>
          /\ next_player_index(moves') = next_player_index(moves)]_vars

\* A Board error came back through Game::add_move on a board with moves.
C6_Witness ==
    /\ ret.op = "Game.add_move"
    /\ ret.err \in {"InvalidPosition", "PositionAlreadyTaken"}
    /\ Len(moves) > 0

(***************************************************************************)
(* C7.  Game::add_move fails with GameNotStartedYet whenever fewer than    *)
(* three players have joined, with GameIsOver whenever the game is over,   *)
(* and with PlayerNotFound when the game is playing and the id is not in   *)
(* the roster; none of these calls changes the Board.                      *)
(***************************************************************************)
C7_LifecycleAndRosterErrors ==
    [][\A id \in PlayerIds : \A p \in GameInputs(moves) :
          Game_add_move(id, p) =>
            /\ Len(player_ids) < 3 =>
                 (ret'.err = "GameNotStartedYet"
                    /\ UNCHANGED <<moves, board_status>>)
            /\ status = "IsOver" =>
                 (ret'.err = "GameIsOver"
                    /\ UNCHANGED <<moves, board_status>>)
            /\ (status = "IsPlaying" /\ id \notin Range(player_ids)) =>
                 (ret'.err = "PlayerNotFound"
                    /\ UNCHANGED <<moves, board_status>>)]_vars

(***************************************************************************)
(* C8.  Game::add_player fails with CannotAddMoreThanThreePlayers when the *)
(* roster has 3 entries and with CannotAddSamePlayerTwice when the id is   *)
(* in the roster; otherwise it appends the id, and the status becomes      *)
(* IsPlaying exactly on the call that makes the roster size 3.             *)
(***************************************************************************)
C8_AddPlayer ==
    [][\A id \in PlayerIds :
          Game_add_player(id) =>
            IF Len(player_ids) = 3
              THEN /\ ret'.err = "CannotAddMoreThanThreePlayers"
                   /\ UNCHANGED <<player_ids, status>>
            ELSE IF id \in Range(player_ids)
              THEN /\ ret'.err = "CannotAddSamePlayerTwice"
                   /\ UNCHANGED <<player_ids, status>>
            ELSE /\ ret'.err = "none"
                 /\ player_ids' = Append(player_ids, id)
                 /\ status' = (IF Len(player_ids) = 2 THEN "IsPlaying"
                               ELSE "WaitingForPlayers")]_vars

\* The third player has just joined.
C8_Witness ==
    /\ ret.op = "Game.add_player" /\ ret.err = "none"
    /\ Len(player_ids) = 3 /\ status = "IsPlaying"

(***************************************************************************)
(* C9.  On a Board whose status is HasWinner add_move fails with           *)
(* ThereIsAlreadyAWinner, and on a Board whose status is Tied with         *)
(* BoardIsFull, whatever the argument (free, taken or invalid label).      *)
(***************************************************************************)
C9_FinishedBoardRejects ==
    [][\A p \in BoardInputs(moves) :
          Board_add_move(p) =>
            /\ board_status = "HasWinner" =>
                 ret'.err = "ThereIsAlreadyAWinner"
            /\ board_status = "Tied" => ret'.err = "BoardIsFull"]_vars

\* A finished board refused a call: a free valid label, a taken label and
\* the invalid label were all among the arguments that lead here.
C9_Witness ==
    /\ board_status = "HasWinner"
    /\ ret = [op |-> "Board.add_move", err |-> "ThereIsAlreadyAWinner",
              val |-> 0]
    /\ BoardInputs(moves) \cap (Labels \ Range(moves)) # {}
    /\ BoardInputs(moves) \cap Range(moves) # {}

(***************************************************************************)
(* C10.  On a Board whose status is IsPlaying add_move fails with          *)
(* PositionAlreadyTaken for a label of the sequence and with               *)
(* InvalidPosition for a label outside POSITION; for a valid free label it *)
(* succeeds and appends exactly that label at the end of the sequence.     *)
(***************************************************************************)
C10_PlayingBoardPositionChecks ==
    [][\A p \in BoardInputs(moves) :
          (board_status = "IsPlaying" /\ Board_add_move(p)) =>
            IF p \in Range(moves)
              THEN ret'.err = "PositionAlreadyTaken" /\ moves' = moves
            ELSE IF p \notin Labels
              THEN ret'.err = "InvalidPosition" /\ moves' = moves
            ELSE ret'.err = "none" /\ moves' = Append(moves, p)]_vars

\* A taken label was refused on a playing board.
C10_Witness ==
    /\ board_status = "IsPlaying"
    /\ ret.op = "Board.add_move" /\ ret.err = "PositionAlreadyTaken"
    /\ Len(moves) > 1

(***************************************************************************)
(* C11.  The Board status only ever changes from IsPlaying to HasWinner or *)
(* from IsPlaying to Tied, and once it is HasWinner or Tied neither the    *)
(* status nor the move sequence changes again.                             *)
(***************************************************************************)
C11_BoardStatusMonotonic ==
    [][/\ board_status' # board_status =>
            (board_status = "IsPlaying"
               /\ board_status' \in {"HasWinner", "Tied"})
       /\ board_status \in {"HasWinner", "Tied"} =>
            UNCHANGED <<moves, board_status>>]_vars

\* A call was made on a board that already had a winner, with a free label
\* among the arguments.
C11_Witness ==
    /\ board_status = "HasWinner"
    /\ ret.op = "Board.add_move" /\ ret.err # "none"
    /\ FirstFree(moves, BoardChoices) # {}

(***************************************************************************)
(* C12.  In every reachable state the move sequence holds only labels of   *)
(* POSITION, holds no label twice and has between 0 and 27 entries; each   *)
(* successful add_move extends the previous sequence by exactly one label  *)
(* at its end.                                                             *)
(***************************************************************************)
C12_MovesInvariant ==
    /\ [](/\ Range(moves) \subseteq Labels
          /\ Cardinality(Range(moves)) = Len(moves)
          /\ Len(moves) \in 0..27)
    /\ [][(ret'.op = "Board.add_move" /\ ret'.err = "none") =>
            \E p \in Labels \ Range(moves) : moves' = Append(moves, p)]_vars

\* A successful add_move on a board that already had moves.
C12_Witness == BoardOk /\ Len(moves) >= 3

(***************************************************************************)
(* C13.  The Game status only ever changes from WaitingForPlayers to       *)
(* IsPlaying and from IsPlaying to IsOver; it never returns to an earlier  *)
(* status, and once the game is over no call changes the moves or the      *)
(* status.  The game is over when its status is IsOver; the second         *)
(* conjunct also covers the state in which add_move answers GameIsOver,    *)
(* the Board having left IsPlaying.                                        *)
(***************************************************************************)
C13_GameStatusOneDirectional ==
    [][/\ status' # status =>
            \/ status = "WaitingForPlayers" /\ status' = "IsPlaying"
            \/ status = "IsPlaying" /\ status' = "IsOver"
       /\ (status = "IsOver" \/ board_status # "IsPlaying") =>
            UNCHANGED <<moves, board_status, status>>]_vars

\* The game has started, the board is finished and a call was refused.
C13_Witness ==
    /\ status = "IsPlaying"
    /\ board_status = "HasWinner"
    /\ ret.op = "Game.add_move" /\ ret.err = "GameIsOver"

(***************************************************************************)
(* C14.  get_is_winning_combination fails with InvalidPosition whenever at *)
(* least one of its three arguments is not one of the 27 labels, in any    *)
(* argument position and even when two arguments coincide; when all three  *)
(* are labels and two of them are equal it fails with                      *)
(* PositionsMustBeDistinct; otherwise it returns a boolean.                *)
(***************************************************************************)
C14_DetectorErrorPrecedence ==
    outcome.err # "pending" =>
        IF \E i \in 1..3 : tern[i] \notin Labels
          THEN outcome = DetErr("InvalidPosition")
        ELSE IF tern[1] = tern[2] \/ tern[1] = tern[3] \/ tern[2] = tern[3]
          THEN outcome = DetErr("PositionsMustBeDistinct")
        ELSE outcome.err = "none" /\ outcome.val \in BOOLEAN

\* The first two arguments are the same label and the third is no label.
C14_Witness ==
    /\ tern[1] \in Labels /\ tern[1] = tern[2] /\ tern[3] \notin Labels
    /\ outcome = DetErr("InvalidPosition")

(***************************************************************************)
(* C15.  The detector is order-independent: for every triple of distinct   *)
(* labels it returns the same result for all six orderings of its three    *)
(* arguments.                                                              *)
(***************************************************************************)
C15_DetectorOrderIndependent ==
    (outcome.err # "pending" /\ DistinctLabels(tern)) =>
        /\ outcome = get_is_winning_combination(tern[1], tern[3], tern[2])
        /\ outcome = get_is_winning_combination(tern[2], tern[1], tern[3])
        /\ outcome = get_is_winning_combination(tern[2], tern[3], tern[1])
        /\ outcome = get_is_winning_combination(tern[3], tern[1], tern[2])
        /\ outcome = get_is_winning_combination(tern[3], tern[2], tern[1])

\* A face diagonal given with its two ends first and the face centre last:
\* the first two vectors differ in two coordinates and neither is the centre
\* of the face, so only the third vector makes the detector answer true.
C15_Witness ==
    /\ DistinctLabels(tern)
    /\ outcome = DetOk(TRUE)
    /\ "*" \notin Range(tern)
    /\ LET vector_a == vector_of_position(tern[1])
           vector_b == vector_of_position(tern[2])
       IN  Cardinality({i \in 1..3 : vector_a[i] # vector_b[i]}) = 2
           /\ \A i \in 1..3 : vector_a[i] # vector_b[i] => vector_a[i] # 1

(***************************************************************************)
(* C16.  There are exactly 76 winning lines over the 27 cells: the number  *)
(* of sets of three cells that the detector classifies as winning is 76.   *)
(***************************************************************************)
LinesCounted == scan = << >> /\ outcome.err # "pending"

C17_TableEntriesAreWinning ==
    outcome.err # "pending" => (DistinctLabels(tern) /\ outcome = DetOk(TRUE))

FirstPlayerLine(m) ==
    /\ Len(m) = 7
    /\ get_is_winning_combination(m[1], m[4], m[7]) = DetOk(TRUE)

C19_EarliestWin ==
    BoardOk =>
        /\ Len(moves) < 7 => (ret.val = 0 /\ board_status = "IsPlaying")
        /\ FirstPlayerLine(moves) =>
             (ret.val = 1 /\ board_status = "HasWinner")

\* The seventh move of A,H,G,*,I,F,V has completed the line A, *, V.
C19_Witness ==
    /\ BoardOk
    /\ FirstPlayerLine(moves)
    /\ moves = EarliestWin

(***************************************************************************)
(* C20.  A single move can complete two lines at once and both are         *)
(* counted: from a fresh board the moves A,B,C,G,F,E,T,S,R,V,W,Y,* are all *)
(* accepted, the first twelve each return 0 and leave the status           *)
(* IsPlaying, and the thirteenth returns 2 and sets the status to          *)
(* HasWinner.                                                              *)
(***************************************************************************)
C20_DoubleWin ==
    [][\A p \in BoardInputs(moves) :
          ( /\ Len(moves) < Len(DoubleWin)
            /\ moves = SubSeq(DoubleWin, 1, Len(moves))
            /\ p = DoubleWin[Len(moves) + 1]
            /\ Board_add_move(p) )
          => /\ ret'.err = "none"
             /\ moves' = Append(moves, p)
             /\ IF Len(moves') < Len(DoubleWin)
                  THEN ret'.val = 0 /\ board_status' = "IsPlaying"
                  ELSE ret'.val = 2 /\ board_status' = "HasWinner"]_vars

(***************************************************************************)
(* C21.  Tie: when all 27 labels are played in an order in which no move   *)
(* gives its mover a winning triple, every move is accepted with count 0,  *)
(* the status stays IsPlaying up to the 26th move and is Tied after the    *)
(* 27th, and get_num_tris is then 0; conversely, whenever the status is    *)
(* Tied the sequence has exactly 27 entries and no player owns three cells *)
(* forming a winning line.                                                 *)
(***************************************************************************)
\* The move positions (1-based) of the player with index i in 0..2.
IndexesOf(m, i) == {k \in 1..Len(m) : (k - 1) % 3 = i}

\* Some player owns three cells that the detector classifies as winning.
SomeoneOwnsLine(m) ==
    \E i \in 0..2 :
        \E t \in IndexesOf(m, i) \X IndexesOf(m, i) \X IndexesOf(m, i) :
            /\ t[1] < t[2] /\ t[2] < t[3]
            /\ get_is_winning_combination(m[t[1]], m[t[2]], m[t[3]]).val

C21_Tie ==
    /\ [][\A p \in BoardInputs(moves) :
            ( /\ p \in Labels \ Range(moves)
              /\ ~SomeoneOwnsLine(Append(moves, p))
              /\ Board_add_move(p) )
            => /\ ret'.err = "none" /\ ret'.val = 0
               /\ get_num_tris(moves') = 0
               /\ board_status' = (IF Len(moves') = 27 THEN "Tied"
                                   ELSE "IsPlaying")]_vars
    /\ [](board_status = "Tied" =>
            (Len(moves) = 27 /\ ~SomeoneOwnsLine(moves)))

(***************************************************************************)
(* C22.  The count returned by a successful Game::add_move is the number   *)
(* of winning combinations formed by this move: every winning triple       *)
(* counted contains the label just played, so the count over all of the    *)
(* mover's cells equals the number of winning lines through the new cell   *)
(* that the mover fully owns.                                              *)
(***************************************************************************)
\* The winning triples of the last mover's cells that hold the last move.
NumWinningThroughLast(m) ==
    Cardinality({t \in OwnIndexes(m) \X OwnIndexes(m) \X OwnIndexes(m) :
                   /\ t[1] < t[2] /\ t[2] < t[3] /\ t[3] = Len(m)
                   /\ get_is_winning_combination(m[t[1]], m[t[2]], m[t[3]]).val})

C22_CountIsLinesFormedByMove ==
    (ret.op = "Game.add_move" /\ ret.err = "none") =>
        /\ ret.val = NumWinningThroughLast(moves)
        /\ NumWinningOwn(moves) = NumWinningThroughLast(moves)

(***************************************************************************)
(* C23.  The label table is a bijection between the 27 labels and the 27   *)
(* vectors of {0,1,2}^3: vector_of_position is defined for exactly the 27  *)
(* labels of POSITION, distinct labels map to distinct vectors,            *)
(* position_of_vector(vector_of_position(p)) = p for every label p, and    *)
(* '*' is the only label mapped to (1,1,1).                                *)
(***************************************************************************)
C23_LabelTableIsBijection ==
    outcome.err = "none" =>
        /\ (outcome.vector_p # None) <=> (tern[1] \in Labels)
        /\ tern[1] \in Labels => outcome.vector_p \in Z3xZ3xZ3
        /\ (tern[1] \in Labels /\ tern[1] # POSITION[scan[1] + 1]) =>
              outcome.vector_p # outcome.vector_i
        /\ tern[1] \in Labels => outcome.position_p = tern[1]
        /\ (outcome.vector_p = <<1, 1, 1>>) <=> (tern[1] = "*")

\* The table was applied to a label other than POSITION[i].
C23_Witness ==
    /\ outcome.err = "none"
    /\ tern[1] = "H" /\ outcome.position_p = "H"
    /\ POSITION[scan[1] + 1] = "J"

(***************************************************************************)
(* C24.  coordinates_of_index and index_of_coordinates are exact inverses  *)
(* on the 27 cells: for every i in 0..26, coordinates_of_index(i) =         *)
(* (i div 9, (i div 3) mod 3, i mod 3) has all components in {0,1,2} and   *)
(* index_of_coordinates(coordinates_of_index(i)) = i; for every v in       *)
(* {0,1,2}^3, index_of_coordinates(v) is in 0..26 and                      *)
(* coordinates_of_index(index_of_coordinates(v)) = v.                      *)
(***************************************************************************)
C24_IndexCoordinatesInverse ==
    outcome.err = "none" =>
        /\ outcome.coordinates =
              <<scan[1] \div 9, (scan[1] \div 3) % 3, scan[1] % 3>>
        /\ outcome.coordinates \in Z3xZ3xZ3
        /\ outcome.index = scan[1]
        /\ outcome.index_v \in 0..26
        /\ outcome.coordinates_v = tern[2]

\* The conversions were applied to the last index and to the centre.
C24_Witness ==
    /\ outcome.err = "none"
    /\ scan = <<26>> /\ outcome.coordinates = <<2, 2, 2>>
    /\ tern[2] = <<1, 1, 1>> /\ outcome.index_v = 13

(***************************************************************************)
(* C25.  For all a, b in {0,1,2}: z3_semi_sum(a, b) = ((a + b) * 2) mod 3  *)
(* is in {0,1,2}, z3_semi_sum(a, b) = z3_semi_sum(b, a),                   *)
(* z3_semi_sum(a, a) = a, and when a # b the result is the value different *)
(* from both, so that {a, b, z3_semi_sum(a, b)} = {0,1,2}.  The components *)
(* of semi_sum are z3_semi_sum of the components.                          *)
(***************************************************************************)
C25_Z3SemiSum ==
    outcome.err = "none" =>
        \A k \in 1..3 :
            (tern[1][k] \in Z3 /\ tern[2][k] \in Z3) =>
                /\ outcome.sum[k] \in Z3
                /\ outcome.sum[k] = outcome.sum_ba[k]
                /\ tern[1][k] = tern[2][k] => outcome.sum[k] = tern[1][k]
                /\ tern[1][k] # tern[2][k] =>
                     {tern[1][k], tern[2][k], outcome.sum[k]} = Z3

\* The three components are the cases 0,1 -> 2; 1,2 -> 0; 2,2 -> 2.
C25_Witness ==
    /\ tern = << <<0, 1, 2>>, <<1, 2, 2>> >>
    /\ outcome.err = "none" /\ outcome.sum = <<2, 0, 2>>

(***************************************************************************)
(* C26.  For all vectors a, b in {0,1,2}^3: semi_sum(a, a) = a,            *)
(* semi_sum(a, b) = semi_sum(b, a), and with c = semi_sum(a, b) also       *)
(* semi_sum(b, c) = a and semi_sum(c, a) = b; and for two distinct cells   *)
(* a, b of one straight line of the cube, semi_sum(a, b) is the third cell *)
(* of that line.                                                           *)
(***************************************************************************)
C26_SemiSum ==
    (outcome.err = "none" /\ tern[1] \in Z3xZ3xZ3 /\ tern[2] \in Z3xZ3xZ3) =>
        /\ outcome.sum_aa = tern[1]
        /\ outcome.sum = outcome.sum_ba
        /\ outcome.sum_bc = tern[1]
        /\ outcome.sum_ca = tern[2]
        /\ \A c \in Z3xZ3xZ3 :
              ( /\ tern[1] # tern[2] /\ c # tern[1] /\ c # tern[2]
                /\ IsStraightLine(tern[1], tern[2], c) )
              => outcome.sum = c

\* The two ends of a face diagonal: the semi-sum is the centre of the face.
C26_Witness ==
    /\ tern = << <<0, 0, 0>>, <<2, 2, 0>> >>
    /\ outcome.err = "none" /\ outcome.sum = <<1, 1, 0>>

(***************************************************************************)
(* C27.  The index of a label in the POSITION array corresponds to its     *)
(* coordinates in base 3: for every i in 0..26,                            *)
(* vector_of_position(POSITION[i]) = coordinates_of_index(i), that is      *)
(* index_of_coordinates(vector_of_position(POSITION[i])) = i with          *)
(* index = x * 9 + y * 3 + z.                                              *)
(***************************************************************************)
C27_PositionIndexIsBase3 ==
    outcome.err = "none" =>
        /\ outcome.vector_i = outcome.coordinates
        /\ index_of_coordinates(outcome.vector_i) = scan[1]

(***************************************************************************)
(* C28.  The centre shortcut is sound and complete: every triple of        *)
(* distinct labels that contains '*' and passes the semi-sum test is a     *)
(* straight line of the cube through (1,1,1), the other two cells being    *)
(* mirror images through the centre, and exactly 13 sets of three cells    *)
(* containing '*' are classified as winning.                               *)
(***************************************************************************)
MirrorImages(p, q) == \A i \in 1..3 : p[i] + q[i] = 2

C28_CentreShortcut ==
    /\ ( /\ tern # << >>
         /\ "*" \in Range(tern)
         /\ are_equal(semi_sum(vector_of_position(tern[1]),
                               vector_of_position(tern[2])),
                      vector_of_position(tern[3])) )
       => /\ outcome = DetOk(TRUE)
          /\ IsStraightLine(vector_of_position(tern[1]),
                            vector_of_position(tern[2]),
                            vector_of_position(tern[3]))
          /\ \A k \in 1..3 : \A h \in 1..3 :
                (k < h /\ tern[k] # "*" /\ tern[h] # "*") =>
                    MirrorImages(vector_of_position(tern[k]),
                                 vector_of_position(tern[h]))
    /\ ( /\ tern # << >>
         /\ "*" \in Range(tern)
         /\ outcome = DetOk(TRUE) )
       => are_equal(semi_sum(vector_of_position(tern[1]),
                             vector_of_position(tern[2])),
                    vector_of_position(tern[3]))
    /\ LinesCounted => centre_lines = 13

\* All sets of three cells have been looked at, the cube diagonal A, *, V
\* among them.
C28_Witness == LinesCounted /\ centre_lines = 13 /\ lines > centre_lines

(***************************************************************************)
(* C29.  are_equal compares vectors component-wise modulo 3: for all       *)
(* vectors a, b with components in 0..5, are_equal(a, b) is true exactly   *)
(* when a and b name the same cell once each component is reduced modulo   *)
(* 3, so (3,0,1) equals (0,0,1); on components already in {0,1,2} it is    *)
(* plain equality.                                                         *)
(***************************************************************************)
CellOf(v) == coordinates_of_index(index_of_coordinates(
                 <<v[1] % 3, v[2] % 3, v[3] % 3>>))

C29_AreEqualModulo3 ==
    outcome.err = "none" =>
        /\ outcome.val <=> (CellOf(tern[1]) = CellOf(tern[2]))
        /\ (tern[1] \in Z3xZ3xZ3 /\ tern[2] \in Z3xZ3xZ3) =>
               (outcome.val <=> (tern[1] = tern[2]))
        /\ (tern[1] = <<3, 0, 1>> /\ tern[2] = <<0, 0, 1>>) => outcome.val

\* (3,0,1) has been compared with (0,0,1) and found equal.
C29_Witness ==
    /\ outcome.err = "none"
    /\ tern = << <<3, 0, 1>>, <<0, 0, 1>> >>
    /\ outcome.val

(***************************************************************************)
(* C30.  Error precedence in Game::add_player: when the roster already has *)
(* 3 entries the call fails with CannotAddMoreThanThreePlayers for every   *)
(* id, an id of the roster included, and leaves the roster and the status  *)
(* alone; CannotAddSamePlayerTwice is returned only while the roster has   *)
(* fewer than 3 entries, for an id that is in it.                          *)
(***************************************************************************)
C30_AddPlayerErrorPrecedence ==
    [][\A id \in PlayerIds :
          Game_add_player(id) =>
             /\ Len(player_ids) = 3 =>
                   /\ ret'.err = "CannotAddMoreThanThreePlayers"
                   /\ UNCHANGED <<player_ids, status>>
             /\ ret'.err = "CannotAddSamePlayerTwice" =>
                   /\ Len(player_ids) < 3
                   /\ id \in Range(player_ids)
                   /\ UNCHANGED <<player_ids, status>>
             /\ (Len(player_ids) < 3 /\ id \in Range(player_ids)) =>
                   ret'.err = "CannotAddSamePlayerTwice"]_vars

\* A call was refused with a full roster, the ids offered to that call being
\* the three of the roster and one outside it.
C30_Witness ==
    /\ ret.op = "Game.add_player"
    /\ ret.err = "CannotAddMoreThanThreePlayers"
    /\ Len(player_ids) = 3
    /\ Range(player_ids) \subseteq JoinInputs(player_ids)
    /\ JoinInputs(player_ids) \ Range(player_ids) # {}

(***************************************************************************)
(* C31.  Error precedence in Game::add_move is lifecycle, then roster,     *)
(* then turn, then board: a call with an id outside the roster returns     *)
(* GameNotStartedYet before the game starts and GameIsOver after the Board *)
(* has left IsPlaying; in a playing game a registered player who moves out *)
(* of turn with an invalid or taken label gets PlayerMustWaitForTurn, and  *)
(* the player in turn gets the Board's InvalidPosition or                  *)
(* PositionAlreadyTaken.                                                   *)
(***************************************************************************)
C31_AddMoveErrorPrecedence ==
    [][\A id \in PlayerIds : \A p \in GameInputs(moves) :
          Game_add_move(id, p) =>
            /\ (id \notin Range(player_ids) /\ status = "WaitingForPlayers")
                 => ret'.err = "GameNotStartedYet"
            /\ ( /\ id \notin Range(player_ids)
                 /\ status # "WaitingForPlayers"
                 /\ board_status # "IsPlaying" )
                 => ret'.err = "GameIsOver"
            /\ ( /\ status = "IsPlaying"
                 /\ board_status = "IsPlaying"
                 /\ id \in Range(player_ids)
                 /\ (p \notin Labels \/ p \in Range(moves)) )
                 => IF id # player_ids[next_player_index(moves) + 1]
                      THEN ret'.err = "PlayerMustWaitForTurn"
                    ELSE IF p \in Range(moves)
                      THEN ret'.err = "PositionAlreadyTaken"
                    ELSE ret'.err = "InvalidPosition"]_vars

(***************************************************************************)
(* C32.  Through Game::add_move the Board errors BoardIsFull and           *)
(* ThereIsAlreadyAWinner are never returned: whenever the Board status is  *)
(* HasWinner or Tied, Game::add_move returns GameIsOver without calling    *)
(* the Board, so the only Board errors a caller of the Game can see are    *)
(* InvalidPosition and PositionAlreadyTaken.                               *)
(***************************************************************************)
C32_BoardEndErrorsAreHidden ==
    [][\A id \in PlayerIds : \A p \in GameInputs(moves) :
          Game_add_move(id, p) =>
            LET r == Game_add_move_result(player_ids, status, moves,
                                          board_status, id, p)
            IN  /\ board_status \in {"HasWinner", "Tied"} =>
                     /\ ret'.err = "GameIsOver"
                     /\ ~r.called
                     /\ UNCHANGED <<moves, board_status>>
                /\ ret'.err \notin {"BoardIsFull", "ThereIsAlreadyAWinner"}
                /\ (r.called /\ ret'.err # "none") =>
                     ret'.err \in {"InvalidPosition",
                                   "PositionAlreadyTaken"}]_vars

\* The seventh move has won the Board and a later call, with a free label
\* left to play, was turned away by the Game.
C32_Witness ==
    /\ ret.op = "Game.add_move"
    /\ ret.err = "GameIsOver"
    /\ board_status = "HasWinner"
    /\ Len(moves) = 7
    /\ FreeLabels(moves) # << >>

(***************************************************************************)
(* C33.  In every reachable state of the Game the roster has at most 3     *)
(* entries, all pairwise distinct; the status is WaitingForPlayers if and  *)
(* only if the roster has fewer than 3 entries; and while the status is    *)
(* WaitingForPlayers the move sequence is empty.                           *)
(***************************************************************************)
C33_RosterAndStatus ==
    /\ Len(player_ids) <= 3
    /\ \A i \in 1..Len(player_ids) : \A j \in 1..Len(player_ids) :
          i # j => player_ids[i] # player_ids[j]
    /\ (status = "WaitingForPlayers") <=> (Len(player_ids) < 3)
    /\ status = "WaitingForPlayers" => moves = << >>

\* Three players have joined, moves have been made and a fourth join has
\* just been refused.
C33_Witness ==
    /\ Len(player_ids) = 3
    /\ status = "IsPlaying"
    /\ Len(moves) > 0
    /\ ret.op = "Game.add_player"
    /\ ret.err # "none"

(***************************************************************************)
(* C34.  Checking only the mover's cells never misses a win: in every      *)
(* reachable state whose Board status is IsPlaying none of the three       *)
(* players (move positions congruent to 0, 1, 2 modulo 3) owns three cells *)
(* forming a winning line; in every state whose status is HasWinner the    *)
(* player who made the last move owns at least one winning line and the    *)
(* other two players own none.                                             *)
(***************************************************************************)
\* The player with index i in 0..2 owns three cells of m that the detector
\* classifies as winning.
OwnsLine(m, i) ==
    \E t \in IndexesOf(m, i) \X IndexesOf(m, i) \X IndexesOf(m, i) :
        /\ t[1] < t[2] /\ t[2] < t[3]
        /\ get_is_winning_combination(m[t[1]], m[t[2]], m[t[3]]).val

C34_OnlyTheMoverCanWin ==
    /\ board_status = "IsPlaying" => \A i \in 0..2 : ~OwnsLine(moves, i)
    /\ board_status = "HasWinner" =>
          \A i \in 0..2 :
             OwnsLine(moves, i) <=> (i = (Len(moves) - 1) % 3)

(***************************************************************************)
(* C35.  Every match ends: no sequence of operations contains more than 27 *)
(* successful add_move calls; in a started game where the player in turn   *)
(* keeps submitting a free valid label the Game reaches IsOver, the Board  *)
(* being in HasWinner or Tied, after at most 27 moves; and as long as the  *)
(* Board is IsPlaying at least one free valid label exists, so the game is *)
(* never stuck in IsPlaying.                                               *)
(***************************************************************************)
C35_EveryMatchEnds ==
    /\ [](/\ Len(moves) <= Len(POSITION)
          /\ Cardinality(Range(moves)) = Len(moves)
          /\ Range(moves) \subseteq Labels)
    /\ [](board_status = "IsPlaying" => FreeLabels(moves) # << >>)
    /\ [][Len(moves') > Len(moves) =>
            (ret'.err = "none" /\ Len(moves') = Len(moves) + 1)]_vars
    /\ (status = "IsPlaying") ~>
          ( /\ status = "IsOver"
            /\ board_status \in {"HasWinner", "Tied"}
            /\ Len(moves) <= Len(POSITION) )

(***************************************************************************)
(* C36.  Ownership of a cell for win counting is determined only by its    *)
(* position in the move sequence: the counts returned and the statuses     *)
(* reached are a function of the sequence of labels alone.  A call of      *)
(* Game::add_move by a registered id, on the same Board and with the same  *)
(* label, has the same result (error, count, sequence, Board status)       *)
(* whatever the three ids of the roster are and whichever of them submits  *)
(* the move; hence two games that differ only in these return the same     *)
(* counts and reach the same statuses, move after move.                    *)
(***************************************************************************)
\* The rosters of a started game.
Rosters ==
    {r \in PlayerIds \X PlayerIds \X PlayerIds :
        r[1] # r[2] /\ r[1] # r[3] /\ r[2] # r[3]}

C36_CountsDependOnLabelsOnly ==
    [][\A id \in PlayerIds : \A p \in GameInputs(moves) :
          ( /\ Game_add_move(id, p)
            /\ status # "WaitingForPlayers"
            /\ id \in Range(player_ids) )
          => /\ \A other \in Rosters : \A id2 \in Range(other) :
                  Game_add_move_result(other, status, moves, board_status,
                                       id2, p)
                    = Game_add_move_result(player_ids, status, moves,
                                           board_status, id, p)
             /\ ret'.val = Game_add_move_result(player_ids, status, moves,
                                                board_status, id, p).val
             /\ ret'.err = "none" =>
                   /\ moves' = Append(moves, p)
                   /\ ret'.val = get_num_tris(moves')
                   /\ board_status' = BoardStatusAfter(get_num_tris(moves'),
                                                       moves')]_vars

\* The seventh move of a game has been accepted and has returned a count
\* above 0.
C36_Witness ==
    /\ ret.op = "Game.add_move"
    /\ ret.err = "none"
    /\ ret.val > 0
    /\ Len(moves) = 7
    /\ player_ids \in Rosters

(***************************************************************************)
(* C37.  Board::next_player_index is the number of moves accepted so far   *)
(* modulo 3: it is 0 on an empty board, advances by exactly 1 (modulo 3)   *)
(* on each accepted move, and is unchanged by a rejected move (invalid     *)
(* label or label already taken).                                          *)
(***************************************************************************)
C37_NextPlayerIndex ==
    /\ [](/\ next_player_index(moves) \in 0..2
          /\ moves = << >> => next_player_index(moves) = 0)
    /\ [][\A p \in BoardInputs(moves) :
            Board_add_move(p) =>
               IF ret'.err = "none"
                 THEN next_player_index(moves')
                        = (next_player_index(moves) + 1) % 3
                 ELSE next_player_index(moves')
                        = next_player_index(moves)]_vars

\* Four moves were accepted, the index having gone round once, and a fifth
\* one has just been rejected by the Board.
C37_Witness ==
    /\ ret.op = "Board.add_move"
    /\ ret.err \in {"InvalidPosition", "PositionAlreadyTaken"}
    /\ Len(moves) = 4
    /\ next_player_index(moves) = 1

(***************************************************************************)
(* C38.  Frame conditions of the Game operations: add_player never changes *)
(* the Board (move sequence and Board status), add_move never changes the  *)
(* roster, the roster only grows by appending, and once it has three       *)
(* entries no later operation changes it.                                  *)
(***************************************************************************)
C38_FrameConditions ==
    [][/\ ret'.op = "Game.add_player" => UNCHANGED <<moves, board_status>>
       /\ ret'.op = "Game.add_move" => UNCHANGED <<player_ids, status>>
       /\ \/ player_ids' = player_ids
          \/ \E id \in PlayerIds : player_ids' = Append(player_ids, id)
       /\ Len(player_ids) = 3 => player_ids' = player_ids]_vars

\* The roster is full, the Board has been won, and add_player has just been
\* called once more.
C38_Witness ==
    /\ ret.op = "Game.add_player"
    /\ Len(player_ids) = 3
    /\ board_status = "HasWinner"
    /\ Len(moves) = 7

=============================================================================
